---------------------------- MODULE Spec2Model ----------------------------
(***************************************************************************)
(* Trip lifecycle and location ingestion of the mobility backend.          *)
(*                                                                         *)
(* The store holds the tables trips, trip_points, trip_events and admins.  *)
(* Every request handler is an async function: each `await` on the store   *)
(* (`await prisma...`) is one storage statement, and the statements of     *)
(* concurrent requests interleave.  The handlers are modelled twice from   *)
(* the same storage operators: statement by statement (Spec, SpecIngest,   *)
(* SpecDouble, SpecAdmin, SpecReads) and as whole handlers served one at a *)
(* time (SpecSeq, SpecIngestSeq, SpecDetail, SpecBoard, SpecViews,         *)
(* SpecStreak, SpecWindow, SpecEvents, SpecFault, SpecLimits,              *)
(* SpecDuration).                                                          *)
(*                                                                         *)
(* Trip ids are creation indexes (the index into `trips`), point ids are   *)
(* drawn from nextPointId.  Timestamps are positive epoch values; Null     *)
(* stands for an absent JSON field and for SQL NULL.                       *)
(***************************************************************************)
EXTENDS Integers, Sequences, FiniteSets, TLC

\* ------------------------------------------------------------------ bounds
MaxTrips == 2
MaxPointId == 4
MaxEvents == 1
MaxClock == 2
MaxTs == 1
MaxCoord == 1
MaxBatch == 2
\* point ids where the trip lifecycle is the subject
FewPointIds == 1
\* trips and point ids where ingestion is the subject
FewTrips == 1
RacePointIds == 3
\* point ids where the trip's detail is the subject
DetailPointIds == 3
\* events where the event log is the subject
ManyEvents == 3
\* point ids where the reads and the trip's times are the subject
TwoPointIds == 2
\* trips and recent days that may lack a trip where the streak is the subject
StreakTrips == 62
GapDays == 3
\* distances are counted in 1/UnitsPerMetre of a metre; positions are grid
\* indexes along one line, GridStep such units apart
UnitsPerMetre == 2
GridStep == 1

\* -------------------------------------------------------------- constants
Null == 0 - 1
NullStr == "null"
NoModes == <<NullStr>>
BatchCap == 1000
NotFoundId == 0
\* the clock counts seconds
Day == 86400
WeekDays == 7
LeaderboardCap == 100
StreakWindowDays == 60

Users == {"u1", "u2"}
Procs == {1, 2}

\* HTTP outcomes of the handlers
Ok == 200
Created == 201
InvalidState == 400
NotFound == 404
StorageError == 500
BadRequest == 400
ValidationError == 400
Unauthorized == 401
Conflict == 409

\* config.admin.setupSecret (ADMIN_SETUP_SECRET), set on this deployment
setupSecret == "setup-secret"

VARIABLES trips, points, events, admins, nextPointId, clock, pc, req, loc, resp

vars == <<trips, points, events, admins, nextPointId, clock, pc, req, loc, resp>>
db == <<trips, points, events, nextPointId>>

\* ------------------------------------------------------------ input sets
TsIn == {Null} \cup (1..MaxTs)
CoordIn == {<<Null, Null>>} \cup {<<c, c>> : c \in 0..MaxCoord}
ModesIn == {NoModes, <<"car">>}
TripIds == 1..MaxTrips

PointInput(k, ts, c, m) == [clientId |-> k, timestamp |-> ts, lat |-> c, lng |-> c, mode |-> m]

\* the point shapes of the ingestion runs: keyed "k1" and keyless at every
\* coordinate with an explicit timestamp, a second key, and a keyed point that
\* leaves its timestamp to the server
PointsIn == {PointInput(k, 1, c, NullStr) : k \in {"k1", NullStr}, c \in 0..MaxCoord}
            \cup {PointInput("k2", 1, 0, NullStr), PointInput("k1", Null, 0, NullStr)}

RECURSIVE SeqsUpTo(_, _)
SeqsUpTo(S, n) == IF n = 0 THEN {<<>>}
                  ELSE LET shorter == SeqsUpTo(S, n - 1)
                       IN shorter \cup {Append(s, x) : s \in shorter, x \in S}

BatchesIn == SeqsUpTo(PointsIn, MaxBatch) \ {<<>>}

NoReq == [op |-> "none", user |-> NullStr, tripId |-> Null, ts |-> Null,
          lat |-> Null, lng |-> Null, modes |-> NoModes, pts |-> <<>>]
NoLoc == [trip |-> NotFoundId, modes |-> <<>>, when |-> Null, data |-> <<>>]
NoResp == [status |-> Null, body |-> Null]

Request(op, u, tid, ts, c, ms, pts) ==
    [op |-> op, user |-> u, tripId |-> tid, ts |-> ts, lat |-> c[1], lng |-> c[2],
     modes |-> ms, pts |-> pts]
Response(status, body) == [status |-> status, body |-> body]

\* ------------------------------------------------------ storage operators

\* `timestamp ? new Date(timestamp) : new Date()`: an absent or falsy
\* timestamp takes the server clock
\* (faulty variant: the client's timestamp is ignored)
WhenAlwaysNow(ts, now) == now
When(ts, now) == IF ts # Null /\ ts # 0 THEN ts ELSE now

\* prisma.trip.findFirst({ where: { id, userId } }): the id, or NotFoundId
\* (faulty variant: the lookup is by id alone)
findFirstAnyOwner(T, tid, uid) == IF tid \in DOMAIN T THEN tid ELSE NotFoundId
findFirst(T, tid, uid) ==
    IF tid \in DOMAIN T /\ T[tid].userId = uid THEN tid ELSE NotFoundId

OpenTrips(T, uid) == {i \in DOMAIN T : T[i].userId = uid /\ T[i].endedAt = Null}

\* prisma.trip.updateMany({ where: { userId, endedAt: null }, data: { endedAt: now } })
\* (faulty variant: nothing is closed)
updateManyKeepOpen(T, uid, now) == T
updateManyEnded(T, uid, now) ==
    [i \in DOMAIN T |-> IF T[i].userId = uid /\ T[i].endedAt = Null
                        THEN [T[i] EXCEPT !.endedAt = now]
                        ELSE T[i]]

\* prisma.trip.create: the new trip is open, its end fields and its cached
\* distance and duration (`distanceMeters: Int?`, `durationSeconds: Int?`, not
\* in `data`) are NULL.  Of the fields
\* set once at creation only the owner and startedAt are kept.
tripCreate(T, uid, startedAt, ms) ==
    Append(T, [userId |-> uid, startedAt |-> startedAt, endedAt |-> Null,
               endLat |-> Null, endLng |-> Null, distanceMeters |-> Null,
               durationSeconds |-> Null,
               modes |-> IF ms = NoModes THEN <<>> ELSE ms])

\* prisma.trip.update in stopTrip: writes endedAt and the end coordinates
tripStop(T, tid, endedAt, lat, lng) ==
    [T EXCEPT ![tid] = [@ EXCEPT !.endedAt = endedAt, !.endLat = lat, !.endLng = lng]]

\* prisma.trip.update in updateTripDetails: writes the detail fields only;
\* a field the request leaves out is written back from the snapshot read
\* before.  `modes` stands for the detail fields (modes, companions,
\* destination), which are all written this way.
\* (faulty variant: the snapshot's endedAt, null when it was read, is written too)
tripDetailsWriteSnapshot(T, tid, snapModes, ms) ==
    [T EXCEPT ![tid] = [@ EXCEPT !.modes = IF ms = NoModes THEN snapModes ELSE ms,
                                 !.endedAt = Null]]
tripDetails(T, tid, snapModes, ms) ==
    [T EXCEPT ![tid] = [@ EXCEPT !.modes = IF ms = NoModes THEN snapModes ELSE ms]]

\* the row built from one point of a request (`clientId || null`, `mode || null`)
Row(tid, p, now) ==
    [tripId |-> tid, timestamp |-> When(p.timestamp, now), lat |-> p.lat, lng |-> p.lng,
     mode |-> p.mode, clientId |-> p.clientId]

\* (points || []).slice(0, 1000).map(...)
Data(tid, pts, now) ==
    LET n == IF Len(pts) < BatchCap THEN Len(pts) ELSE BatchCap
    IN [i \in 1..n |-> Row(tid, pts[i], now)]

Keyed(data) == {i \in DOMAIN data : data[i].clientId # NullStr}

\* unique composite (tripId, clientId); NULL keys never conflict
Conflicts(P, row) ==
    row.clientId # NullStr
    /\ \E q \in P : q.tripId = row.tripId /\ q.clientId = row.clientId

Stored(row, id) ==
    [id |-> id, tripId |-> row.tripId, timestamp |-> row.timestamp, lat |-> row.lat,
     lng |-> row.lng, mode |-> row.mode, clientId |-> row.clientId]

\* DELETE FROM trip_points t USING (VALUES ...) v
\*   WHERE t.trip_id = v.tripId AND t.client_id = v.clientId
deleteMatching(P, data) ==
    {q \in P : ~ \E i \in Keyed(data) :
                    q.tripId = data[i].tripId /\ q.clientId = data[i].clientId}

\* prisma.tripPoint.createMany({ data, skipDuplicates: true }): rows are inserted
\* in order, a row that conflicts with a stored row, or with a row of the
\* same statement before it, is skipped; the others draw consecutive ids.
\* The result is <<table, next free id>>.
\* (faulty variant: no unique composite, every row is inserted)
createManyNoUnique(P, data, id) ==
    <<P \cup {Stored(data[i], id + i - 1) : i \in DOMAIN data}, id + Len(data)>>

createMany(P, data, id) ==
    LET inserted == {i \in DOMAIN data :
                        \/ data[i].clientId = NullStr
                        \/ /\ ~Conflicts(P, data[i])
                           /\ ~ \E j \in 1..(i - 1) :
                                   /\ data[j].tripId = data[i].tripId
                                   /\ data[j].clientId = data[i].clientId}
        before(i) == IF inserted = DOMAIN data THEN i - 1
                     ELSE Cardinality({j \in inserted : j < i})
    IN <<P \cup {Stored(data[i], id + before(i)) : i \in inserted},
         id + Cardinality(inserted)>>

TripPoints(P, tid) == {q \in P : q.tripId = tid}

\* ----------------------------------------------------- the trip's detail
Abs(x) == IF x < 0 THEN 0 - x ELSE x
Max(a, b) == IF a < b THEN b ELSE a

\* great-circle length between two positions of the grid: 0 for the same
\* position, symmetric, and additive along the line of the grid
haversine(lat1, lon1, lat2, lon2) ==
    GridStep * Max(Abs(lat2 - lat1), Abs(lon2 - lon1))

\* Math.round of a non-negative length: to the nearest metre, halves go up
Round(x) == (2 * x + UnitsPerMetre) \div (2 * UnitsPerMetre)

\* prisma.tripPoint.findMany({ where: { tripId }, orderBy: { timestamp: 'asc' } }):
\* the rows of the trip by ascending timestamp.  ORDER BY names no second
\* column, so rows with equal timestamps come in whatever order the store
\* produces: every timestamp-sorted arrangement is a possible result.
findMany(P, tid) ==
    LET S == TripPoints(P, tid)
        n == Cardinality(S)
    IN {s \in [1..n -> S] :
           /\ \A i, j \in 1..n : i < j => s[i] # s[j]
           /\ \A i, j \in 1..n : i < j => s[i].timestamp <= s[j].timestamp}

\* pointsWithMode[i].mode || 'unknown'
\* (faulty variant: an untagged point keeps its empty tag)
ModeOfNoUnknown(q) == q.mode
ModeOf(q) == IF q.mode = NullStr THEN "unknown" ELSE q.mode

Segment(s, i) == haversine(s[i - 1].lat, s[i - 1].lng, s[i].lat, s[i].lng)

\* the loop `for (let i = 1; i < pointsWithMode.length; i++)`, in units
RECURSIVE SumSegments(_, _, _)
SumSegments(s, i, modes) ==
    IF i > Len(s) THEN 0
    ELSE (IF ModeOf(s[i]) \in modes THEN Segment(s, i) ELSE 0)
         + SumSegments(s, i + 1, modes)

ModesSeen(s) == {ModeOf(s[i]) : i \in 2..Len(s)}
Distance(s) == SumSegments(s, 2, ModesSeen(s))
ByMode(s) == [m \in ModesSeen(s) |-> SumSegments(s, 2, {m})]

\* trip.endedAt ? Math.max(0, Math.floor((endedAt - startedAt) / 1000)) : null;
\* the clock counts whole seconds
DurationSec(t) ==
    IF t.endedAt = Null THEN Null ELSE Max(0, t.endedAt - t.startedAt)

\* durationSec && durationSec > 0 ? distance / durationSec : null, kept as the
\* fraction <<units, seconds>>
AvgSpeed(distance, durationSec) ==
    IF durationSec # Null /\ durationSec > 0 THEN <<distance, durationSec>> ELSE Null

\* the `data` of the reply of getTripDetail: `shown` is the first read of the
\* points, `withMode` the second
TripDetail(t, shown, withMode) ==
    [distanceMeters |-> Round(Distance(withMode)),
     durationSeconds |-> DurationSec(t),
     averageSpeedMps |-> AvgSpeed(Distance(withMode), DurationSec(t)),
     distanceByMode |-> [m \in ModesSeen(withMode) |-> Round(ByMode(withMode)[m])],
     points |-> [i \in DOMAIN shown |->
                    [timestamp |-> shown[i].timestamp, lat |-> shown[i].lat,
                     lng |-> shown[i].lng]]]


\* ------------------------------------------------------- the trips' list
\* Math.min(Math.max(parseInt(req.query.pageSize || '20', 10), 1), 100) of a
\* request without pageSize
PageSize == 20

\* prisma.trip.count({ where: { userId } })
tripCount(T, uid) == Cardinality({i \in DOMAIN T : T[i].userId = uid})

\* select: { id, startedAt, endedAt, modes, distanceMeters, durationSeconds }
ListItem(T, i) ==
    [id |-> i, startedAt |-> T[i].startedAt, endedAt |-> T[i].endedAt,
     modes |-> T[i].modes, distanceMeters |-> T[i].distanceMeters,
     durationSeconds |-> T[i].durationSeconds]

\* prisma.trip.findMany({ where: { userId }, orderBy: { startedAt: 'desc' },
\*                        skip: (page - 1) * pageSize, take: pageSize, select })
\* trips of equal startedAt come in any order
tripFindMany(T, uid, page) ==
    LET own == {i \in DOMAIN T : T[i].userId = uid}
        n == Cardinality(own)
        skip == (page - 1) * PageSize
        last == IF skip + PageSize < n THEN skip + PageSize ELSE n
    IN {[k \in 1..(IF last > skip THEN last - skip ELSE 0) |-> ListItem(T, s[skip + k])] :
           s \in {o \in [1..n -> own] :
                      /\ \A i, j \in 1..n : i < j => o[i] # o[j]
                      /\ \A i, j \in 1..n : i < j => T[o[i]].startedAt >= T[o[j]].startedAt}}

\* data: { total, page, pageSize, items }
TripsList(total, page, items) ==
    [total |-> total, page |-> page, pageSize |-> PageSize, items |-> items]

\* ------------------------------------------------- the weekly leaderboard
\* WITH d AS (SELECT t.user_id, COALESCE(SUM(t.distance_meters),0) ... FROM trips t
\*            WHERE t.started_at >= NOW() - INTERVAL '7 days' GROUP BY t.user_id)
InWindow(T, uid, now, days) ==
    {i \in DOMAIN T : T[i].userId = uid /\ T[i].startedAt >= now - days * Day}

\* SUM skips NULLs; over no row, or over NULLs only, it is NULL
RECURSIVE SumDistanceMeters(_, _)
SumDistanceMeters(T, I) ==
    IF I = {} THEN Null
    ELSE LET i == CHOOSE x \in I : TRUE
             rest == SumDistanceMeters(T, I \ {i})
         IN IF T[i].distanceMeters = Null THEN rest
            ELSE IF rest = Null THEN T[i].distanceMeters
            ELSE T[i].distanceMeters + rest

Coalesce(v, dflt) == IF v = Null THEN dflt ELSE v

\* FROM users u LEFT JOIN d ON d.user_id = u.id LEFT JOIN c ...: one row for
\* every user of the users table (Users); no companion contact is stored
LeaderboardRow(T, uid, now) ==
    [user_id |-> uid,
     distance |-> Coalesce(Coalesce(SumDistanceMeters(T, InWindow(T, uid, now, WeekDays)), 0), 0),
     companions |-> 0]

\* ORDER BY distance DESC, companions DESC LIMIT 100: rows that tie come in
\* any order
Leaderboard(T, now) ==
    LET rows == {LeaderboardRow(T, u, now) : u \in Users}
        n == IF Cardinality(rows) < LeaderboardCap THEN Cardinality(rows)
             ELSE LeaderboardCap
    IN {s \in [1..n -> rows] :
           /\ \A i, j \in 1..n : i < j => s[i] # s[j] /\ s[i].distance >= s[j].distance
           /\ \A r \in rows : (\A i \in 1..n : s[i] # r)
                               => \A i \in 1..n : s[i].distance >= r.distance}

\* --------------------------------------------------------- the streak
\* to_char(date_trunc('day', started_at), 'YYYY-MM-DD') and
\* cmp.toISOString().slice(0,10): the calendar day (UTC) of an instant
DayKey(t) == t \div Day

\* SELECT ... FROM trips WHERE user_id = $1
\*   AND started_at >= NOW() - INTERVAL '60 days' GROUP BY 1
\* (faulty variant: the trips of every user)
ActiveDaysAnyOwner(T, uid, now) ==
    {DayKey(T[i].startedAt) :
        i \in {j \in DOMAIN T : T[j].startedAt >= now - StreakWindowDays * Day}}
ActiveDays(T, uid, now) ==
    {DayKey(T[i].startedAt) : i \in InWindow(T, uid, now, StreakWindowDays)}

\* for (;;) { if (days.has(key)) { streak += 1; cmp -= 86400000 } else break }
RECURSIVE StreakFrom(_, _)
StreakFrom(days, cmp) ==
    IF DayKey(cmp) \in days THEN 1 + StreakFrom(days, cmp - Day) ELSE 0

\* --------------------------------------------------------------- initial
Init ==
    /\ trips = <<>>
    /\ points = {}
    /\ events = <<>>
    /\ admins = {}
    /\ nextPointId = 1
    /\ clock = 1
    /\ pc = [p \in Procs |-> "idle"]
    /\ req = [p \in Procs |-> NoReq]
    /\ loc = [p \in Procs |-> NoLoc]
    /\ resp = NoResp

\* a worker takes a new request when it is not inside a handler
Ready(p) == pc[p] = "idle"

\* the handler of p returns (res.status(..).json(..)) or throws a CustomError;
\* its request and its locals are gone, the reply is with the client
Reply(p, status, body) ==
    /\ pc' = [pc EXCEPT ![p] = "idle"]
    /\ req' = [req EXCEPT ![p] = NoReq]
    /\ loc' = [loc EXCEPT ![p] = NoLoc]
    /\ resp' = Response(status, body)

\* the handler of p goes on to its next storage statement
Goto(p, r, label, l) ==
    /\ pc' = [pc EXCEPT ![p] = label]
    /\ req' = [req EXCEPT ![p] = r]
    /\ loc' = [loc EXCEPT ![p] = l]
    /\ UNCHANGED resp

\* the guard every mutating handler opens with: the trip of the caller, open
\* (faulty variant: endedAt is not looked at)
RejectionNoEndCheck(T, tid, uid) ==
    IF findFirst(T, tid, uid) = NotFoundId THEN NotFound ELSE Ok
Rejection(T, tid, uid) ==
    IF findFirst(T, tid, uid) = NotFoundId THEN NotFound
    ELSE IF T[tid].endedAt # Null THEN InvalidState
    ELSE Ok

\* trips being created by handlers that have closed the old trips already
Creating == {p \in Procs : pc[p] = "startTrip_create"}
\* ids the in-flight inserts may still draw
Reserved == LET n[S \in SUBSET Procs] ==
                    IF S = {} THEN 0
                    ELSE LET p == CHOOSE x \in S : TRUE
                         IN n[S \ {p}] + IF pc[p] \in {"ingestLocation_create",
                                                        "batchIngest_delete",
                                                        "batchIngest_createMany"}
                                         THEN Len(loc[p].data) ELSE 0
            IN n[Procs]
Logging == {p \in Procs : pc[p] = "logTripEvent_create"}

\* ------------------------------------------------- the server clock moves
Tick ==
    /\ clock < MaxClock
    /\ clock' = clock + 1
    /\ UNCHANGED <<db, admins, pc, req, loc, resp>>

\* ------------------------------------------- startTrip, statement by statement
startTrip_updateMany(p, u, ts, ms, cap) ==
    /\ Ready(p)
    /\ Len(trips) + Cardinality(Creating) < cap
    /\ trips' = updateManyEnded(trips, u, clock)
    /\ Goto(p, Request("startTrip", u, Null, ts, <<Null, Null>>, ms, <<>>),
            "startTrip_create", [NoLoc EXCEPT !.when = When(ts, clock)])
    /\ UNCHANGED <<points, events, nextPointId, clock, admins>>

startTrip_create(p) ==
    /\ pc[p] = "startTrip_create"
    /\ trips' = tripCreate(trips, req[p].user, loc[p].when, req[p].modes)
    /\ Reply(p, Created, Len(trips'))
    /\ UNCHANGED <<points, events, nextPointId, clock, admins>>

\* -------------------------------------------- stopTrip, statement by statement
stopTrip_findFirst(p, u, tid, ts, c) ==
    LET r == Request("stopTrip", u, tid, ts, c, NoModes, <<>>)
        rej == Rejection(trips, tid, u)
    IN /\ Ready(p)
       /\ IF rej # Ok
          THEN Reply(p, rej, Null)
          ELSE Goto(p, r, "stopTrip_update",
                    [NoLoc EXCEPT !.trip = tid, !.when = When(ts, clock)])
       /\ UNCHANGED <<db, clock, admins>>

stopTrip_update(p) ==
    /\ pc[p] = "stopTrip_update"
    /\ trips' = tripStop(trips, loc[p].trip, loc[p].when, req[p].lat, req[p].lng)
    /\ Reply(p, Ok, loc[p].trip)
    /\ UNCHANGED <<points, events, nextPointId, clock, admins>>

\* ----------------------------------- updateTripDetails, statement by statement
updateTripDetails_findFirst(p, u, tid, ms) ==
    LET r == Request("updateTripDetails", u, tid, Null, <<Null, Null>>, ms, <<>>)
        rej == Rejection(trips, tid, u)
    IN /\ Ready(p)
       /\ IF rej # Ok
          THEN Reply(p, rej, Null)
          ELSE Goto(p, r, "updateTripDetails_update",
                    [NoLoc EXCEPT !.trip = tid, !.modes = trips[tid].modes])
       /\ UNCHANGED <<db, clock, admins>>

updateTripDetails_update(p) ==
    /\ pc[p] = "updateTripDetails_update"
    /\ trips' = tripDetails(trips, loc[p].trip, loc[p].modes, req[p].modes)
    /\ Reply(p, Ok, loc[p].trip)
    /\ UNCHANGED <<points, events, nextPointId, clock, admins>>

\* -------------------------------------- ingestLocation, statement by statement
ingestLocation_findFirst(p, u, tid, pt, cap) ==
    LET r == Request("ingestLocation", u, tid, Null, <<Null, Null>>, NoModes, <<pt>>)
        rej == Rejection(trips, tid, u)
    IN /\ Ready(p)
       /\ (rej = Ok => nextPointId + Reserved <= cap)
       /\ IF rej # Ok
          THEN Reply(p, rej, Null)
          ELSE Goto(p, r, "ingestLocation_create",
                    [NoLoc EXCEPT !.trip = tid, !.data = <<Row(tid, pt, clock)>>])
       /\ UNCHANGED <<db, clock, admins>>

\* prisma.tripPoint.create throws on the unique composite; nothing is stored
ingestLocation_create(p) ==
    /\ pc[p] = "ingestLocation_create"
    /\ IF Conflicts(points, loc[p].data[1])
       THEN /\ Reply(p, StorageError, Null)
            /\ UNCHANGED <<points, nextPointId>>
       ELSE /\ points' = points \cup {Stored(loc[p].data[1], nextPointId)}
            /\ nextPointId' = nextPointId + 1
            /\ Reply(p, Created, Null)
    /\ UNCHANGED <<trips, events, clock, admins>>

\* -------------------------------- batchIngestLocations, statement by statement
batchIngest_findFirst(p, u, tid, pts, cap) ==
    LET r == Request("batchIngestLocations", u, tid, Null, <<Null, Null>>, NoModes, pts)
        rej == Rejection(trips, tid, u)
        data == Data(tid, pts, clock)
    IN /\ Ready(p)
       /\ (rej = Ok => nextPointId + Reserved + Len(pts) - 1 <= cap)
       /\ IF rej # Ok
          THEN Reply(p, rej, Null)
          ELSE Goto(p, r, IF Keyed(data) # {} THEN "batchIngest_delete"
                                            ELSE "batchIngest_createMany",
                    [NoLoc EXCEPT !.trip = tid, !.data = data])
       /\ UNCHANGED <<db, clock, admins>>

batchIngest_delete(p) ==
    /\ pc[p] = "batchIngest_delete"
    /\ points' = deleteMatching(points, loc[p].data)
    /\ pc' = [pc EXCEPT ![p] = "batchIngest_createMany"]
    /\ UNCHANGED <<trips, events, nextPointId, clock, admins, req, loc, resp>>

\* the reply counts the rows of the request: `inserted: data.length`
batchIngest_createMany(p) ==
    /\ pc[p] = "batchIngest_createMany"
    /\ LET made == createMany(points, loc[p].data, nextPointId)
       IN /\ points' = made[1]
          /\ nextPointId' = made[2]
    /\ Reply(p, Created, Len(loc[p].data))
    /\ UNCHANGED <<trips, events, clock, admins>>

\* ---------------------------------------- logTripEvent, statement by statement
logTripEvent_findFirst(p, u, tid) ==
    LET r == Request("logTripEvent", u, tid, Null, <<Null, Null>>, NoModes, <<>>)
    IN /\ Ready(p)
       /\ (findFirst(trips, tid, u) # NotFoundId
             => Len(events) + Cardinality(Logging) < MaxEvents)
       /\ IF findFirst(trips, tid, u) = NotFoundId
          THEN Reply(p, NotFound, Null)
          ELSE Goto(p, r, "logTripEvent_create", [NoLoc EXCEPT !.trip = tid])
       /\ UNCHANGED <<db, clock, admins>>

logTripEvent_create(p) ==
    /\ pc[p] = "logTripEvent_create"
    /\ events' = Append(events, [tripId |-> loc[p].trip, type |-> "note"])
    /\ Reply(p, Created, Len(events'))
    /\ UNCHANGED <<trips, points, nextPointId, clock, admins>>

\* --------------------------------------------------------- getTripDetail
\* the lookup and the reads of the trip's points; the reply carries the detail
getTripDetail(p, u, tid) ==
    LET r == Request("getTripDetail", u, tid, Null, <<Null, Null>>, NoModes, <<>>)
    IN /\ Ready(p)
       /\ IF findFirst(trips, tid, u) = NotFoundId
          THEN Reply(p, NotFound, Null)
          ELSE \E shown \in findMany(points, tid), withMode \in findMany(points, tid) :
                  Reply(p, Ok, TripDetail(trips[tid], shown, withMode))
       /\ UNCHANGED <<db, clock, admins>>

\* ----------------------------------- getTripDetail, statement by statement
\* the trip read by findFirst is a snapshot: its endedAt is kept in `when`
getTripDetail_findFirst(p, u, tid) ==
    LET r == Request("getTripDetail", u, tid, Null, <<Null, Null>>, NoModes, <<>>)
    IN /\ Ready(p)
       /\ IF findFirst(trips, tid, u) = NotFoundId
          THEN Reply(p, NotFound, Null)
          ELSE Goto(p, r, "getTripDetail_points",
                    [NoLoc EXCEPT !.trip = tid, !.when = trips[tid].endedAt])
       /\ UNCHANGED <<db, clock, admins>>

\* const points = await prisma.tripPoint.findMany(...)
getTripDetail_points(p) ==
    /\ pc[p] = "getTripDetail_points"
    /\ \E shown \in findMany(points, loc[p].trip) :
          Goto(p, req[p], "getTripDetail_pointsWithMode", [loc[p] EXCEPT !.data = shown])
    /\ UNCHANGED <<db, clock, admins>>

\* const pointsWithMode = await prisma.tripPoint.findMany(...), the loop and
\* the reply
\* (faulty variant: the computed distance is written back to the trip)
getTripDetail_pointsWithModeCaching(p) ==
    /\ pc[p] = "getTripDetail_pointsWithMode"
    /\ \E withMode \in findMany(points, loc[p].trip) :
          /\ trips' = [trips EXCEPT ![loc[p].trip].distanceMeters =
                                        Round(Distance(withMode))]
          /\ Reply(p, Ok, TripDetail([trips[loc[p].trip] EXCEPT !.endedAt = loc[p].when],
                                     loc[p].data, withMode))
    /\ UNCHANGED <<points, events, nextPointId, clock, admins>>
getTripDetail_pointsWithMode(p) ==
    /\ pc[p] = "getTripDetail_pointsWithMode"
    /\ \E withMode \in findMany(points, loc[p].trip) :
          Reply(p, Ok, TripDetail([trips[loc[p].trip] EXCEPT !.endedAt = loc[p].when],
                                 loc[p].data, withMode))
    /\ UNCHANGED <<db, clock, admins>>

\* --------------------------------------- listTrips, statement by statement
\* Promise.all([count, findMany]): the two statements are in flight together
\* and the store runs them in either order; the page is in `ts`
FirstPage == {1}

listTrips_countFirst(p, u, page) ==
    /\ Ready(p)
    /\ Goto(p, Request("listTrips", u, Null, page, <<Null, Null>>, NoModes, <<>>),
            "listTrips_findMany", [NoLoc EXCEPT !.when = tripCount(trips, u)])
    /\ UNCHANGED <<db, clock, admins>>

listTrips_findMany(p) ==
    /\ pc[p] = "listTrips_findMany"
    /\ \E items \in tripFindMany(trips, req[p].user, req[p].ts) :
          Reply(p, Ok, TripsList(loc[p].when, req[p].ts, items))
    /\ UNCHANGED <<db, clock, admins>>

listTrips_findManyFirst(p, u, page) ==
    /\ Ready(p)
    /\ \E items \in tripFindMany(trips, u, page) :
          Goto(p, Request("listTrips", u, Null, page, <<Null, Null>>, NoModes, <<>>),
               "listTrips_count", [NoLoc EXCEPT !.data = items])
    /\ UNCHANGED <<db, clock, admins>>

listTrips_count(p) ==
    /\ pc[p] = "listTrips_count"
    /\ Reply(p, Ok, TripsList(tripCount(trips, req[p].user), req[p].ts, loc[p].data))
    /\ UNCHANGED <<db, clock, admins>>

\* --------------------------- getUserStreak, getWeeklyLeaderboard: one statement
getUserStreak_queryRaw(p, u) ==
    LET days == ActiveDays(trips, u, clock)
    IN /\ Ready(p)
       /\ Reply(p, Ok, [currentStreakDays |-> StreakFrom(days, clock),
                        activeDaysLast60 |-> Cardinality(days)])
       /\ UNCHANGED <<db, clock, admins>>

getWeeklyLeaderboard_queryRaw(p) ==
    /\ Ready(p)
    /\ \E items \in Leaderboard(trips, clock) : Reply(p, Ok, items)
    /\ UNCHANGED <<db, clock, admins>>

\* ------------------------------------------- interleaved requests, trips
\* one owner, two workers; every handler, the lifecycle inputs varied
OneOwner == {"u1"}
StartTsFew == {1}
NoCoord == {<<Null, Null>>}
OnePoint == {PointInput(NullStr, 1, 0, NullStr)}
OneBatch == {<<PointInput("k1", 1, 0, NullStr)>>}

Next ==
    \/ Tick
    \/ \E p \in Procs, u \in OneOwner, ts \in StartTsFew :
            startTrip_updateMany(p, u, ts, NoModes, MaxTrips)
    \/ \E p \in Procs : startTrip_create(p)
    \/ \E p \in Procs, u \in OneOwner, tid \in TripIds, ts \in TsIn, c \in NoCoord :
            stopTrip_findFirst(p, u, tid, ts, c)
    \/ \E p \in Procs : stopTrip_update(p)
    \/ \E p \in Procs, u \in OneOwner, tid \in TripIds, ms \in ModesIn :
            updateTripDetails_findFirst(p, u, tid, ms)
    \/ \E p \in Procs : updateTripDetails_update(p)
    \/ \E p \in Procs, u \in OneOwner, tid \in TripIds, pt \in OnePoint :
            ingestLocation_findFirst(p, u, tid, pt, FewPointIds)
    \/ \E p \in Procs : ingestLocation_create(p)
    \/ \E p \in Procs, u \in OneOwner, tid \in TripIds, pts \in OneBatch :
            batchIngest_findFirst(p, u, tid, pts, FewPointIds)
    \/ \E p \in Procs : batchIngest_delete(p)
    \/ \E p \in Procs : batchIngest_createMany(p)
    \/ \E p \in Procs, u \in OneOwner, tid \in TripIds : logTripEvent_findFirst(p, u, tid)
    \/ \E p \in Procs : logTripEvent_create(p)
    \/ \E p \in Procs, u \in OneOwner, tid \in TripIds : getTripDetail(p, u, tid)

Spec == Init /\ [][Next]_vars

\* ----------------------------------------------- handlers served whole
\* One worker serves one request at a time: a handler runs from its first
\* statement to its reply with no other request in between.  req[p] keeps
\* the request served last, resp its reply.
Worker == CHOOSE p \in Procs : \A q \in Procs : p <= q

Served(p, r, status, body) ==
    /\ req' = [req EXCEPT ![p] = r]
    /\ resp' = Response(status, body)
    /\ UNCHANGED <<pc, loc>>

startTrip(p, u, ts, ms, cap) ==
    /\ Ready(p)
    /\ Len(trips) < cap
    /\ trips' = tripCreate(updateManyEnded(trips, u, clock), u, When(ts, clock), ms)
    /\ Served(p, Request("startTrip", u, Null, ts, <<Null, Null>>, ms, <<>>),
              Created, Len(trips'))
    /\ UNCHANGED <<points, events, nextPointId, clock, admins>>

\* startTrip when prisma.trip.create (or building its `data`) throws: the
\* updateMany before it has run and is not undone, the error handler replies
startTripCreateThrows(p, u, ts, ms) ==
    /\ Ready(p)
    /\ trips' = updateManyEnded(trips, u, clock)
    /\ Served(p, Request("startTrip", u, Null, ts, <<Null, Null>>, ms, <<>>),
              StorageError, Null)
    /\ UNCHANGED <<points, events, nextPointId, clock, admins>>

stopTrip(p, u, tid, ts, c) ==
    LET r == Request("stopTrip", u, tid, ts, c, NoModes, <<>>)
        rej == Rejection(trips, tid, u)
    IN /\ Ready(p)
       /\ IF rej # Ok
          THEN Served(p, r, rej, Null) /\ UNCHANGED trips
          ELSE /\ trips' = tripStop(trips, tid, When(ts, clock), c[1], c[2])
               /\ Served(p, r, Ok, tid)
       /\ UNCHANGED <<points, events, nextPointId, clock, admins>>

updateTripDetails(p, u, tid, ms) ==
    LET r == Request("updateTripDetails", u, tid, Null, <<Null, Null>>, ms, <<>>)
        rej == Rejection(trips, tid, u)
    IN /\ Ready(p)
       /\ IF rej # Ok
          THEN Served(p, r, rej, Null) /\ UNCHANGED trips
          ELSE /\ trips' = tripDetails(trips, tid, trips[tid].modes, ms)
               /\ Served(p, r, Ok, tid)
       /\ UNCHANGED <<points, events, nextPointId, clock, admins>>

ingestLocation(p, u, tid, pt, cap) ==
    LET r == Request("ingestLocation", u, tid, Null, <<Null, Null>>, NoModes, <<pt>>)
        rej == Rejection(trips, tid, u)
        row == Row(tid, pt, clock)
    IN /\ Ready(p)
       /\ (rej = Ok => nextPointId <= cap)
       /\ IF rej # Ok
          THEN Served(p, r, rej, Null) /\ UNCHANGED <<points, nextPointId>>
          ELSE IF Conflicts(points, row)
          THEN Served(p, r, StorageError, Null) /\ UNCHANGED <<points, nextPointId>>
          ELSE /\ points' = points \cup {Stored(row, nextPointId)}
               /\ nextPointId' = nextPointId + 1
               /\ Served(p, r, Created, Null)
       /\ UNCHANGED <<trips, events, clock, admins>>

batchIngestLocations(p, u, tid, pts, cap) ==
    LET r == Request("batchIngestLocations", u, tid, Null, <<Null, Null>>, NoModes, pts)
        rej == Rejection(trips, tid, u)
        data == Data(tid, pts, clock)
        kept == IF Keyed(data) # {} THEN deleteMatching(points, data) ELSE points
        made == createMany(kept, data, nextPointId)
    IN /\ Ready(p)
       /\ (rej = Ok => nextPointId + Len(pts) - 1 <= cap)
       /\ IF rej # Ok
          THEN Served(p, r, rej, Null) /\ UNCHANGED <<points, nextPointId>>
          ELSE /\ points' = made[1]
               /\ nextPointId' = made[2]
               /\ Served(p, r, Created, Len(data))
       /\ UNCHANGED <<trips, events, clock, admins>>

\* (faulty variant: a closed trip is refused as in the other handlers)
logTripEventOpenOnly(p, u, tid, cap) ==
    LET r == Request("logTripEvent", u, tid, Null, <<Null, Null>>, NoModes, <<>>)
        rej == Rejection(trips, tid, u)
    IN /\ Ready(p)
       /\ (rej = Ok => Len(events) < cap)
       /\ IF rej # Ok
          THEN Served(p, r, rej, Null) /\ UNCHANGED events
          ELSE /\ events' = Append(events, [tripId |-> tid, type |-> "note"])
               /\ Served(p, r, Created, Len(events'))
       /\ UNCHANGED <<trips, points, nextPointId, clock, admins>>

\* validateRequest(schema) when the body fails the schema: the handler is
\* not called, the reply is 400 "Validation error"
validateRequestRejects(p, r) ==
    /\ Ready(p)
    /\ Served(p, r, ValidationError, "Validation error")
    /\ UNCHANGED <<db, clock, admins>>

\* batchIngestSchema: points: Joi.array().items(...).min(1).max(1000).required()
\* (faulty variant: no upper limit)
ValidBatchNoMax(pts) == Len(pts) >= 1
ValidBatch(pts) == Len(pts) >= 1 /\ Len(pts) <= BatchCap

\* router.post('/batch-ingest', ..., validateRequest(batchIngestSchema),
\*             batchIngestLocations)
batchIngestRoute(p, u, tid, pts, cap) ==
    IF ValidBatch(pts)
    THEN batchIngestLocations(p, u, tid, pts, cap)
    ELSE validateRequestRejects(p, Request("batchIngestLocations", u, tid, Null,
                                           <<Null, Null>>, NoModes, pts))

logTripEvent(p, u, tid, cap) ==
    LET r == Request("logTripEvent", u, tid, Null, <<Null, Null>>, NoModes, <<>>)
    IN /\ Ready(p)
       /\ (findFirst(trips, tid, u) # NotFoundId => Len(events) < cap)
       /\ IF findFirst(trips, tid, u) = NotFoundId
          THEN Served(p, r, NotFound, Null) /\ UNCHANGED events
          ELSE /\ events' = Append(events, [tripId |-> tid, type |-> "note"])
               /\ Served(p, r, Created, Len(events'))
       /\ UNCHANGED <<trips, points, nextPointId, clock, admins>>

getTripDetailWhole(p, u, tid) ==
    LET r == Request("getTripDetail", u, tid, Null, <<Null, Null>>, NoModes, <<>>)
    IN /\ Ready(p)
       /\ IF findFirst(trips, tid, u) = NotFoundId
          THEN Served(p, r, NotFound, Null)
          ELSE \E shown \in findMany(points, tid), withMode \in findMany(points, tid) :
                  Served(p, r, Ok, TripDetail(trips[tid], shown, withMode))
       /\ UNCHANGED <<db, clock, admins>>

\* --------------------------------------- one request at a time, the trips
NextSeq ==
    \/ Tick
    \/ \E u \in Users, ts \in StartTsFew : startTrip(Worker, u, ts, NoModes, MaxTrips)
    \/ \E u \in Users, tid \in TripIds, ts \in TsIn, c \in NoCoord :
            stopTrip(Worker, u, tid, ts, c)
    \/ \E u \in Users, tid \in TripIds, ms \in ModesIn :
            updateTripDetails(Worker, u, tid, ms)
    \/ \E u \in Users, tid \in TripIds, pt \in OnePoint :
            ingestLocation(Worker, u, tid, pt, FewPointIds)
    \/ \E u \in Users, tid \in TripIds, pts \in OneBatch :
            batchIngestLocations(Worker, u, tid, pts, FewPointIds)
    \/ \E u \in Users, tid \in TripIds : logTripEvent(Worker, u, tid, MaxEvents)
    \/ \E u \in Users, tid \in TripIds : getTripDetailWhole(Worker, u, tid)

SpecSeq == Init /\ [][NextSeq]_vars

\* ----------------------------------- one request at a time, the points
\* one owner and one trip; single points and batches of every point shape
StopTsFew == {1}
OneTripId == {1}

NextIngestSeq ==
    \/ Tick
    \/ \E u \in OneOwner, ts \in StartTsFew : startTrip(Worker, u, ts, NoModes, FewTrips)
    \/ \E u \in OneOwner, tid \in OneTripId, ts \in StopTsFew, c \in NoCoord :
            stopTrip(Worker, u, tid, ts, c)
    \/ \E u \in OneOwner, tid \in OneTripId, pt \in PointsIn :
            ingestLocation(Worker, u, tid, pt, MaxPointId)
    \/ \E u \in OneOwner, tid \in OneTripId, pts \in BatchesIn :
            batchIngestLocations(Worker, u, tid, pts, MaxPointId)

SpecIngestSeq == Init /\ [][NextIngestSeq]_vars

\* ---------------------------------------- interleaved requests, the points
\* one owner and one trip, two workers; a keyed and a keyless point, sent
\* singly and in batches that repeat the key; the trip is stopped at every
\* end coordinate
RacePoints == {PointInput(k, 1, 0, NullStr) : k \in {"k1", NullStr}}
RaceBatches == {<<PointInput("k1", 1, 0, NullStr)>>,
                <<PointInput("k1", 1, 1, NullStr), PointInput(NullStr, 1, 0, NullStr)>>}

NextIngest ==
    \/ Tick
    \/ \E p \in Procs, u \in OneOwner, ts \in StartTsFew :
            startTrip_updateMany(p, u, ts, NoModes, FewTrips)
    \/ \E p \in Procs : startTrip_create(p)
    \/ \E p \in Procs, u \in OneOwner, tid \in OneTripId, ts \in TsIn, c \in CoordIn :
            stopTrip_findFirst(p, u, tid, ts, c)
    \/ \E p \in Procs : stopTrip_update(p)
    \/ \E p \in Procs, u \in OneOwner, tid \in OneTripId, pt \in RacePoints :
            ingestLocation_findFirst(p, u, tid, pt, RacePointIds)
    \/ \E p \in Procs : ingestLocation_create(p)
    \/ \E p \in Procs, u \in OneOwner, tid \in OneTripId, pts \in RaceBatches :
            batchIngest_findFirst(p, u, tid, pts, RacePointIds)
    \/ \E p \in Procs : batchIngest_delete(p)
    \/ \E p \in Procs : batchIngest_createMany(p)

SpecIngest == Init /\ [][NextIngest]_vars

\* ------------------------------------------- a batch submitted twice at once
\* one owner and one trip, two workers; the same keyed payload is all that is
\* ever submitted, so every batch in flight and every batch reply is of it
DoubleBatch == <<PointInput("k1", 1, 0, NullStr), PointInput("k2", 1, 1, NullStr)>>

NextDouble ==
    \/ Tick
    \/ \E p \in Procs, u \in OneOwner, ts \in StartTsFew :
            startTrip_updateMany(p, u, ts, NoModes, FewTrips)
    \/ \E p \in Procs : startTrip_create(p)
    \/ \E p \in Procs, u \in OneOwner, tid \in OneTripId, ts \in StopTsFew, c \in NoCoord :
            stopTrip_findFirst(p, u, tid, ts, c)
    \/ \E p \in Procs : stopTrip_update(p)
    \/ \E p \in Procs, u \in OneOwner, tid \in OneTripId :
            batchIngest_findFirst(p, u, tid, DoubleBatch, MaxPointId)
    \/ \E p \in Procs : batchIngest_delete(p)
    \/ \E p \in Procs : batchIngest_createMany(p)

SpecDouble == Init /\ [][NextDouble]_vars

getWeeklyLeaderboard(p) ==
    LET r == Request("getWeeklyLeaderboard", NullStr, Null, Null, <<Null, Null>>,
                     NoModes, <<>>)
    IN /\ Ready(p)
       /\ \E items \in Leaderboard(trips, clock) : Served(p, r, Ok, items)
       /\ UNCHANGED <<db, clock, admins>>

getUserStreak(p, u) ==
    LET r == Request("getUserStreak", u, Null, Null, <<Null, Null>>, NoModes, <<>>)
        days == ActiveDays(trips, u, clock)
    IN /\ Ready(p)
       /\ Served(p, r, Ok, [currentStreakDays |-> StreakFrom(days, clock),
                            activeDaysLast60 |-> Cardinality(days)])
       /\ UNCHANGED <<db, clock, admins>>

listTrips(p, u, page) ==
    LET r == Request("listTrips", u, Null, page, <<Null, Null>>, NoModes, <<>>)
    IN /\ Ready(p)
       /\ \E items \in tripFindMany(trips, u, page) :
             Served(p, r, Ok, TripsList(tripCount(trips, u), page, items))
       /\ UNCHANGED <<db, clock, admins>>

\* ------------------------------------------------------------- the admins
\* email.toLowerCase(), on the addresses of the requests
toLowerCase(e) == IF e = "A@x.io" THEN "a@x.io" ELSE e

\* prisma.admin.findFirst({ where: { role: 'SUPER_ADMIN' } })
SuperAdmins(A) == {a \in A : a.role = "SUPER_ADMIN"}
\* prisma.admin.findUnique({ where: { email } }): email is a unique field
HasEmail(A, email) == \E a \in A : a.email = email

AdminRequest(op, email, secret) ==
    [Request(op, email, Null, Null, <<Null, Null>>, NoModes, <<>>) EXCEPT
        !.modes = <<secret>>]

\* prisma.admin.create: throws on the unique email, nothing is stored
adminCreate(p, role) ==
    LET email == toLowerCase(req[p].user)
    IN IF HasEmail(admins, email)
       THEN Reply(p, StorageError, Null) /\ UNCHANGED admins
       ELSE /\ admins' = admins \cup {[email |-> email, role |-> role]}
            /\ Reply(p, Created, email)

\* adminSignUp: findUnique, then (after hashing the password) create
adminSignUp_findUnique(p, email) ==
    /\ Ready(p)
    /\ IF HasEmail(admins, toLowerCase(email))
       THEN Reply(p, Conflict, Null)
       ELSE Goto(p, AdminRequest("adminSignUp", email, NullStr), "adminSignUp_create", NoLoc)
    /\ UNCHANGED <<db, clock, admins>>

adminSignUp_create(p) ==
    /\ pc[p] = "adminSignUp_create"
    /\ adminCreate(p, "ADMIN")
    /\ UNCHANGED <<db, clock>>

\* bootstrapSuperAdmin: the secret, findFirst by role, findUnique by email,
\* then (after hashing the password) create
bootstrapSuperAdmin_findFirst(p, email, secret) ==
    /\ Ready(p)
    /\ IF setupSecret = "" THEN Reply(p, BadRequest, Null)
       ELSE IF secret # setupSecret THEN Reply(p, Unauthorized, Null)
       ELSE IF SuperAdmins(admins) # {} THEN Reply(p, Conflict, Null)
       ELSE Goto(p, AdminRequest("bootstrapSuperAdmin", email, secret),
                 "bootstrapSuperAdmin_findUnique", NoLoc)
    /\ UNCHANGED <<db, clock, admins>>

bootstrapSuperAdmin_findUnique(p) ==
    /\ pc[p] = "bootstrapSuperAdmin_findUnique"
    /\ IF HasEmail(admins, toLowerCase(req[p].user))
       THEN Reply(p, Conflict, Null)
       ELSE Goto(p, req[p], "bootstrapSuperAdmin_create", NoLoc)
    /\ UNCHANGED <<db, clock, admins>>

bootstrapSuperAdmin_create(p) ==
    /\ pc[p] = "bootstrapSuperAdmin_create"
    /\ adminCreate(p, "SUPER_ADMIN")
    /\ UNCHANGED <<db, clock>>

\* ------------------------------------ one request at a time, the detail
\* one owner and one trip; points without key and timestamp (the server
\* clock stamps them, so points of one tick share a timestamp) at every
\* position and with every mode tag, and the detail read in between
PointModes == {NullStr, "car", "walk"}
DetailPoints == {PointInput(NullStr, Null, c, m) : c \in 0..MaxCoord, m \in PointModes}

NextDetail ==
    \/ Tick
    \/ \E u \in OneOwner, ts \in StartTsFew : startTrip(Worker, u, ts, NoModes, FewTrips)
    \/ \E u \in OneOwner, tid \in OneTripId, ts \in TsIn, c \in NoCoord :
            stopTrip(Worker, u, tid, ts, c)
    \/ \E u \in OneOwner, tid \in OneTripId, pt \in DetailPoints :
            ingestLocation(Worker, u, tid, pt, DetailPointIds)
    \/ \E u \in OneOwner, tid \in OneTripId : getTripDetailWhole(Worker, u, tid)

SpecDetail == Init /\ [][NextDetail]_vars

\* -------------------------------- one request at a time, the leaderboard
\* The server has been up for a hundred days.  Two owners; a trip is started
\* with a client timestamp two or eight days back, fed one batch of two
\* points half a metre apart, stopped, and read by its detail and by the
\* leaderboard.
LateClock == 100 * Day + 3600

InitLate ==
    /\ trips = <<>>
    /\ points = {}
    /\ events = <<>>
    /\ admins = {}
    /\ nextPointId = 1
    /\ clock = LateClock
    /\ pc = [p \in Procs |-> "idle"]
    /\ req = [p \in Procs |-> NoReq]
    /\ loc = [p \in Procs |-> NoLoc]
    /\ resp = NoResp

BoardStarts == {LateClock - 2 * Day, LateClock - 8 * Day}
BoardBatch == <<PointInput("k1", LateClock - 2 * Day + 1, 0, NullStr),
                PointInput("k2", LateClock - 2 * Day + 2, 1, NullStr)>>

NextBoard ==
    \/ \E u \in Users, ts \in BoardStarts : startTrip(Worker, u, ts, NoModes, MaxTrips)
    \/ \E u \in Users, tid \in TripIds, c \in NoCoord :
            stopTrip(Worker, u, tid, Null, c)
    \/ \E u \in Users, tid \in TripIds :
            batchIngestLocations(Worker, u, tid, BoardBatch, MaxPointId)
    \/ \E u \in Users, tid \in TripIds : getTripDetailWhole(Worker, u, tid)
    \/ getWeeklyLeaderboard(Worker)

SpecBoard == InitLate /\ [][NextBoard]_vars

\* the same runs with the owner's list of trips read as well
NextViews ==
    \/ NextBoard
    \/ \E u \in Users, page \in FirstPage : listTrips(Worker, u, page)

SpecViews == InitLate /\ [][NextViews]_vars

\* ----------------------------------- one request at a time, the streak
\* The first owner uploads a history of trips, newest first, each started at
\* midnight of the day before the earliest trip so far; within the last
\* GapDays days a day may be left out.  The second owner starts a trip now,
\* before any other trip exists.
EarliestDay(T, uid, now) ==
    LET D == {DayKey(T[i].startedAt) : i \in {j \in DOMAIN T : T[j].userId = uid}}
    IN IF D = {} THEN DayKey(now) + 1
       ELSE CHOOSE d \in D : \A e \in D : d <= e
StreakStarts(T, uid, now) ==
    LET e == EarliestDay(T, uid, now) IN
    IF uid \in OneOwner
    THEN {(e - 1) * Day} \cup (IF e - 1 >= DayKey(now) - GapDays THEN {(e - 2) * Day} ELSE {})
    ELSE IF T = <<>> THEN {Null} ELSE {}

NextStreak ==
    \/ \E u \in Users : \E ts \in StreakStarts(trips, u, clock) :
            startTrip(Worker, u, ts, NoModes, StreakTrips)
    \/ \E u \in Users : getUserStreak(Worker, u)

SpecStreak == InitLate /\ [][NextStreak]_vars

\* ---------------------- one request at a time, the edges of the window
\* One owner uploads a history of trips, newest first, each started at three
\* in the morning: the first one tomorrow (a client clock ahead) or today,
\* every further one the day before the earliest so far.  The server's time
\* of day is one o'clock, so the trip of sixty days ago is two hours inside
\* the window.
WindowStarts(T, uid, now) ==
    LET e == EarliestDay(T, uid, now)
    IN {(e - 1) * Day + 3 * 3600} \cup (IF T = <<>> THEN {e * Day + 3 * 3600} ELSE {})

NextWindow ==
    \/ \E u \in OneOwner : \E ts \in WindowStarts(trips, u, clock) :
            startTrip(Worker, u, ts, NoModes, StreakTrips)
    \/ \E u \in OneOwner : getUserStreak(Worker, u)

SpecWindow == InitLate /\ [][NextWindow]_vars

\* ------------------------------ one request at a time, the event log
\* two owners; trips are started and stopped, a point is stored, and events
\* are logged on open and closed trips, own and foreign
NextEvents ==
    \/ \E u \in Users, ts \in StartTsFew : startTrip(Worker, u, ts, NoModes, MaxTrips)
    \/ \E u \in Users, tid \in TripIds, ts \in StopTsFew, c \in NoCoord :
            stopTrip(Worker, u, tid, ts, c)
    \/ \E u \in Users, tid \in TripIds, pt \in OnePoint :
            ingestLocation(Worker, u, tid, pt, FewPointIds)
    \/ \E u \in Users, tid \in TripIds : logTripEvent(Worker, u, tid, ManyEvents)

SpecEvents == Init /\ [][NextEvents]_vars

\* ------------------------------------------ interleaved requests, admins
\* two workers; sign-ups and bootstraps with the right and a wrong secret,
\* on two addresses, one of them also in upper case
EmailsIn == {"a@x.io", "A@x.io", "b@x.io"}
SecretsIn == {setupSecret, "wrong-secret"}

NextAdmin ==
    \/ \E p \in Procs, e \in EmailsIn : adminSignUp_findUnique(p, e)
    \/ \E p \in Procs : adminSignUp_create(p)
    \/ \E p \in Procs, e \in EmailsIn, sec \in SecretsIn :
            bootstrapSuperAdmin_findFirst(p, e, sec)
    \/ \E p \in Procs : bootstrapSuperAdmin_findUnique(p)
    \/ \E p \in Procs : bootstrapSuperAdmin_create(p)

SpecAdmin == Init /\ [][NextAdmin]_vars

\* ------------------------------- one request at a time, a failing store
\* two owners; trips are started and stopped, and the create of a StartTrip
\* may throw
NextFault ==
    \/ Tick
    \/ \E u \in Users, ts \in TsIn, ms \in ModesIn : startTrip(Worker, u, ts, ms, MaxTrips)
    \/ \E u \in Users, ts \in TsIn, ms \in ModesIn : startTripCreateThrows(Worker, u, ts, ms)
    \/ \E u \in Users, tid \in TripIds, ts \in TsIn, c \in NoCoord :
            stopTrip(Worker, u, tid, ts, c)

SpecFault == Init /\ [][NextFault]_vars

\* ------------------------------ one request at a time, the batch limits
\* one owner and one trip; batches of no point, of one point, of exactly
\* BatchCap points and of one point more, through the route's validation
SizedBatch(n) == [i \in 1..n |-> PointInput(NullStr, 1, i % (MaxCoord + 1), NullStr)]
SmallBatches == {SizedBatch(n) : n \in {0, 1}}
LargeBatches == {SizedBatch(n) : n \in {BatchCap, BatchCap + 1}}

NextLimits ==
    \/ Tick
    \/ \E u \in Users, ts \in StartTsFew : startTrip(Worker, u, ts, NoModes, FewTrips)
    \/ \E u \in Users, tid \in OneTripId, ts \in StopTsFew, c \in NoCoord :
            stopTrip(Worker, u, tid, ts, c)
    \/ \E u \in Users, tid \in OneTripId, pts \in SmallBatches :
            batchIngestRoute(Worker, u, tid, pts, FewPointIds)
    \/ \E u \in Users, tid \in OneTripId, pts \in LargeBatches :
            batchIngestRoute(Worker, u, tid, pts, BatchCap + FewPointIds)

SpecLimits == Init /\ [][NextLimits]_vars

\* ------------------------------------- interleaved requests, the reads
\* one owner and one trip, two workers; two points with client timestamps
\* at different positions, one event; the four reads between the statements
\* of the lifecycle and the ingestion
ReadPoints == {PointInput(NullStr, 1, 0, NullStr), PointInput(NullStr, 2, 1, "walk")}

NextReads ==
    \/ \E p \in Procs, u \in OneOwner, ts \in StartTsFew :
            startTrip_updateMany(p, u, ts, NoModes, FewTrips)
    \/ \E p \in Procs : startTrip_create(p)
    \/ \E p \in Procs, u \in OneOwner, tid \in OneTripId, ts \in StopTsFew, c \in NoCoord :
            stopTrip_findFirst(p, u, tid, ts, c)
    \/ \E p \in Procs : stopTrip_update(p)
    \/ \E p \in Procs, u \in OneOwner, tid \in OneTripId, pt \in ReadPoints :
            ingestLocation_findFirst(p, u, tid, pt, TwoPointIds)
    \/ \E p \in Procs : ingestLocation_create(p)
    \/ \E p \in Procs, u \in OneOwner, tid \in OneTripId : logTripEvent_findFirst(p, u, tid)
    \/ \E p \in Procs : logTripEvent_create(p)
    \/ \E p \in Procs, u \in OneOwner, tid \in OneTripId : getTripDetail_findFirst(p, u, tid)
    \/ \E p \in Procs : getTripDetail_points(p)
    \/ \E p \in Procs : getTripDetail_pointsWithMode(p)
    \/ \E p \in Procs, u \in OneOwner, page \in FirstPage : listTrips_countFirst(p, u, page)
    \/ \E p \in Procs : listTrips_findMany(p)
    \/ \E p \in Procs, u \in OneOwner, page \in FirstPage : listTrips_findManyFirst(p, u, page)
    \/ \E p \in Procs : listTrips_count(p)
    \/ \E p \in Procs, u \in OneOwner : getUserStreak_queryRaw(p, u)
    \/ \E p \in Procs : getWeeklyLeaderboard_queryRaw(p)

SpecReads == Init /\ [][NextReads]_vars

\* ------------------------------- one request at a time, the trip's times
\* one owner and one trip started at the server's time or at a client's
\* time, fed two points at different positions, stopped at the server's time
\* or at a client's time (which may lie before the start), and read
StartTsAny == TsIn
DurationPoints == {PointInput(NullStr, Null, c, NullStr) : c \in 0..MaxCoord}

NextDuration ==
    \/ Tick
    \/ \E u \in OneOwner, ts \in StartTsAny : startTrip(Worker, u, ts, NoModes, FewTrips)
    \/ \E u \in OneOwner, tid \in OneTripId, ts \in TsIn, c \in NoCoord :
            stopTrip(Worker, u, tid, ts, c)
    \/ \E u \in OneOwner, tid \in OneTripId, pt \in DurationPoints :
            ingestLocation(Worker, u, tid, pt, TwoPointIds)
    \/ \E u \in OneOwner, tid \in OneTripId : getTripDetailWhole(Worker, u, tid)

SpecDuration == Init /\ [][NextDuration]_vars

\* =================================================================== claims
Owner(t) == trips[t].userId
Closed(t) == trips[t].endedAt # Null
Served1 == req[Worker]
Served1Next == req'[Worker]
\* a step of SpecSeq / SpecIngestSeq that serves a request (Tick moves the clock)
ServesRequest == clock' = clock
MutatingOps == {"updateTripDetails", "stopTrip", "ingestLocation", "batchIngestLocations"}
OwnerCheckedOps == MutatingOps \cup {"logTripEvent", "getTripDetail"}

\* C1: for every owner, at most one trip has endedAt = null in every state,
\* also when the statements of two StartTrip calls interleave.
C1_AtMostOneOpenTrip ==
    \A u \in Users : Cardinality(OpenTrips(trips, u)) <= 1

\* C2: with requests served one at a time, every owner has at most one open
\* trip after each request, and after a successful StartTrip the owner's only
\* open trip is the trip just created.
C2_OneOpenTripSequential ==
    /\ \A u \in Users : Cardinality(OpenTrips(trips, u)) <= 1
    /\ (Served1.op = "startTrip" /\ resp.status = Created)
          => OpenTrips(trips, Served1.user) = {resp.body}

C2_Witness ==
    /\ Served1.op = "startTrip" /\ resp.status = Created /\ resp.body = 2
    /\ Owner(1) = Served1.user
    /\ Closed(1) /\ trips[1].endLat = Null

\* C3: UpdateTrip, StopTrip, IngestOne or IngestBatch on a closed trip of the
\* caller replies InvalidState and changes no trip, point or event.
C3_ClosedTripInvalidState ==
    [][\A t \in DOMAIN trips :
          (/\ ServesRequest
           /\ Served1Next.op \in MutatingOps
           /\ Served1Next.tripId = t
           /\ Served1Next.user = Owner(t)
           /\ Closed(t))
          => (resp' = Response(InvalidState, Null) /\ UNCHANGED <<trips, points, events>>)]_vars

C3_Witness ==
    /\ Served1.op = "batchIngestLocations" /\ resp.status = InvalidState
    /\ Served1.tripId \in DOMAIN trips
    /\ Owner(Served1.tripId) = Served1.user
    /\ points # {} /\ events # <<>>

\* C4: for a trip id that is missing or belongs to another owner, open or
\* closed, each of the six handlers replies the same NotFound and changes no
\* trip, point or event.
C4_NotOwnedIsNotFound ==
    [][\A t \in TripIds :
          (/\ ServesRequest
           /\ Served1Next.op \in OwnerCheckedOps
           /\ Served1Next.tripId = t
           /\ (t \notin DOMAIN trips \/ Served1Next.user # Owner(t)))
          => (resp' = Response(NotFound, Null) /\ UNCHANGED <<trips, points, events>>)]_vars

C4_Witness ==
    /\ Served1.op = "stopTrip" /\ resp.status = NotFound
    /\ Served1.tripId \in DOMAIN trips
    /\ Owner(Served1.tripId) # Served1.user
    /\ Closed(Served1.tripId)

\* C5: no step of any handler, in any interleaving, sets a non-null endedAt
\* back to null, and no step removes a trip or changes whose it is.
C5_NoReopenNoDelete ==
    [][\A t \in DOMAIN trips :
          /\ t \in DOMAIN trips'
          /\ trips'[t].userId = trips[t].userId
          /\ (trips[t].endedAt # Null => trips'[t].endedAt # Null)]_vars

C5_Witness ==
    /\ Len(trips) = 2 /\ Closed(1) /\ Closed(2)
    /\ trips[1].modes # <<>>
    /\ points # {} /\ events # <<>>

\* C6: once endedAt and the end coordinates of a trip are set, no later step
\* changes them, also when two StopTrip calls, or a StopTrip and an
\* auto-closing StartTrip, interleave.
C6_ClosedOnce ==
    [][\A t \in DOMAIN trips :
          trips[t].endedAt # Null
          => /\ trips'[t].endedAt = trips[t].endedAt
             /\ trips'[t].endLat = trips[t].endLat
             /\ trips'[t].endLng = trips[t].endLng]_vars

\* the stored points of a trip as the client sees them: without the row id
Visible(q) == [clientId |-> q.clientId, timestamp |-> q.timestamp, lat |-> q.lat,
               lng |-> q.lng, mode |-> q.mode]
PointSet(P, tid) == {Visible(q) : q \in TripPoints(P, tid)}
AllKeyedExplicit(pts) ==
    \A i \in DOMAIN pts : pts[i].clientId # NullStr /\ pts[i].timestamp # Null
KeysOf(pts) == {pts[i].clientId : i \in DOMAIN pts} \ {NullStr}
StoredKeys(P, tid) == {q.clientId : q \in TripPoints(P, tid)} \ {NullStr}
BatchServed ==
    /\ ServesRequest
    /\ Served1Next.op = "batchIngestLocations"
    /\ resp'.status = Created

C8_InsertedCountsRowsWritten ==
    [][BatchServed =>
          resp'.body =
             Cardinality({i \in DOMAIN Served1Next.pts :
                              Served1Next.pts[i].clientId = NullStr})
             + Cardinality(KeysOf(Served1Next.pts)
                             \ StoredKeys(points, Served1Next.tripId))]_vars

\* C9: a point stored under a key that a later batch carries again keeps its
\* timestamp, coordinates and mode.
C9_StoredPointKept ==
    [][BatchServed =>
          \A q \in TripPoints(points, Served1Next.tripId) :
              q.clientId \in KeysOf(Served1Next.pts)
              => Visible(q) \in PointSet(points', Served1Next.tripId)]_vars

\* C10: no trip ever holds two points with the same non-null clientId, and
\* every accepted keyless point adds exactly one stored point: an insert adds
\* as many keyless rows as its request carries, and no step removes one.
KeylessRows(P) == {q \in P : q.clientId = NullStr}
KeylessIn(data) == {i \in DOMAIN data : data[i].clientId = NullStr}
C10_UniqueKeys ==
    \A q1 \in points, q2 \in points :
        (q1.tripId = q2.tripId /\ q1.clientId = q2.clientId /\ q1.clientId # NullStr)
        => q1 = q2
C10_KeylessAppended ==
    /\ KeylessRows(points) \subseteq KeylessRows(points')
    /\ \A p \in Procs :
          (pc[p] \in {"ingestLocation_create", "batchIngest_createMany"} /\ pc'[p] = "idle"
           /\ resp'.status = Created)
          => Cardinality(KeylessRows(points')) =
                Cardinality(KeylessRows(points)) + Cardinality(KeylessIn(loc[p].data))
C10_UniqueKeysKeylessAppended == []C10_UniqueKeys /\ [][C10_KeylessAppended]_vars

C10_Witness ==
    /\ \E q \in points : q.clientId # NullStr
    /\ \E q1 \in points, q2 \in points :
          q1.id # q2.id /\ q1.clientId = NullStr /\ Visible(q1) = Visible(q2)

\* C11: when two submissions of the same keyed batch interleave, the second
\* to insert finds the rows of the first already stored; after it replies,
\* every key of the payload is stored exactly once and the two `inserted`
\* values (the reply before it and its own) add up to the size of the payload.
StoredAlready(p) ==
    \A i \in DOMAIN loc[p].data :
        \E q \in points : q.tripId = loc[p].data[i].tripId
                          /\ Visible(q) = Visible(loc[p].data[i])
SecondInsert(p) ==
    /\ pc[p] = "batchIngest_createMany" /\ pc'[p] = "idle"
    /\ AllKeyedExplicit(req[p].pts)
    /\ StoredAlready(p)
    /\ resp.status = Created /\ resp.body # Null
C11_NoDoubleCount ==
    [][\A p \in Procs :
          SecondInsert(p)
          => /\ \A k \in KeysOf(req[p].pts) :
                   Cardinality({q \in TripPoints(points', req[p].tripId) :
                                    q.clientId = k}) = 1
             /\ resp.body + resp'.body = Len(req[p].pts)]_vars

DetailServed ==
    /\ ServesRequest
    /\ Served1Next.op = "getTripDetail"
    /\ resp'.status = Ok

\* C12: the distance, the per-mode breakdown and the average speed of a
\* GetTripDetail reply are those of every timestamp-sorted arrangement of the
\* trip's stored points, points of equal timestamp included: the reply
\* depends on the set of points only.
C12_OrderIndependent ==
    [][DetailServed =>
          \A s \in findMany(points, Served1Next.tripId) :
              LET d == TripDetail(trips[Served1Next.tripId], s, s)
              IN /\ resp'.body.distanceMeters = d.distanceMeters
                 /\ resp'.body.distanceByMode = d.distanceByMode
                 /\ resp'.body.averageSpeedMps = d.averageSpeedMps]_vars

RECURSIVE SumValues(_, _)
SumValues(f, D) ==
    IF D = {} THEN 0
    ELSE LET m == CHOOSE x \in D : TRUE IN f[m] + SumValues(f, D \ {m})

\* C13: in every GetTripDetail reply the values of distanceByMode add up to
\* distanceMeters within a relative tolerance of 1e-6.
C13_ByModeSumsToTotal ==
    [][DetailServed =>
          LET total == resp'.body.distanceMeters
              parts == SumValues(resp'.body.distanceByMode,
                                 DOMAIN resp'.body.distanceByMode)
          IN Abs(parts - total) * 1000000 <= total]_vars

BoardServed ==
    /\ Served1Next.op = "getWeeklyLeaderboard"
    /\ resp'.status = Ok

\* the distance GetTripDetail reports for a trip
DetailDistance(t) ==
    Round(Distance(CHOOSE s \in findMany(points, t) : TRUE))
RECURSIVE SumDetailDistance(_)
SumDetailDistance(I) ==
    IF I = {} THEN 0
    ELSE LET i == CHOOSE x \in I : TRUE
         IN DetailDistance(i) + SumDetailDistance(I \ {i})

\* C14: every row of a GetWeeklyLeaderboard reply carries the sum of the
\* distances of its owner's trips started in the trailing 7 days: a trip
\* started 8 days ago adds 0, a trip started 2 days ago adds the distance its
\* points give.
C14_BoardSumsTripDistances ==
    [][BoardServed =>
          \A i \in DOMAIN resp'.body :
              resp'.body[i].distance =
                 SumDetailDistance(InWindow(trips, resp'.body[i].user_id, clock,
                                            WeekDays))]_vars

\* C15: no row of a GetWeeklyLeaderboard reply belongs to a user without a
\* trip started in the trailing 7 days.
C15_BoardOmitsIdleUsers ==
    [][BoardServed =>
          \A i \in DOMAIN resp'.body :
              InWindow(trips, resp'.body[i].user_id, clock, WeekDays) # {}]_vars

StreakServed ==
    /\ Served1Next.op = "getUserStreak"
    /\ resp'.status = Ok

\* the days on which the owner started a trip, and the number of consecutive
\* days of D counted backward from today
TripDays(uid, I) == {DayKey(trips[i].startedAt) : i \in {j \in I : trips[j].userId = uid}}
Consecutive(D, today) ==
    CHOOSE k \in 0..Len(trips) :
        (\A j \in 0..(k - 1) : today - j \in D) /\ (today - k \notin D \/ k = Len(trips))
Recent == {i \in DOMAIN trips : trips[i].startedAt >= clock - StreakWindowDays * Day}

\* C16 (as stated): currentStreakDays is the number of consecutive calendar
\* days, counted backward from today, on which the owner started a trip.
C16_StreakCountsAllDays ==
    [][StreakServed =>
          resp'.body.currentStreakDays =
             Consecutive(TripDays(Served1Next.user, DOMAIN trips), DayKey(clock))]_vars

\* C16 (amended): currentStreakDays is the number of consecutive calendar
\* days, counted backward from today, on which the owner started a trip
\* within the last 60 days; activeDaysLast60 is the number of such days, and
\* without such a trip the reply is {0, 0}.  Trips of other owners never count.
C16_StreakCountsRecentDays ==
    [][StreakServed =>
          LET D == TripDays(Served1Next.user, Recent)
          IN /\ resp'.body.currentStreakDays = Consecutive(D, DayKey(clock))
             /\ resp'.body.activeDaysLast60 = Cardinality(D)
             /\ (DayKey(clock) \notin D => resp'.body.currentStreakDays = 0)]_vars

C16_Witness ==
    /\ Served1.op = "getUserStreak" /\ resp.status = Ok
    /\ resp.body = [currentStreakDays |-> 3, activeDaysLast60 |-> 5]
    /\ \E i \in DOMAIN trips : trips[i].userId # Served1.user

\* C17: AppendEvent on a trip of the caller, open or closed, succeeds and
\* appends one event; on any other trip id it replies NotFound and appends
\* nothing; it changes no trip and no point.  No step of any operation
\* changes or removes a stored event.
C17_EventServed ==
    Served1Next.op = "logTripEvent" =>
       LET t == Served1Next.tripId
           owned == t \in DOMAIN trips /\ trips[t].userId = Served1Next.user
       IN /\ owned => /\ resp'.status = Created
                       /\ Len(events') = Len(events) + 1
                       /\ events'[Len(events')].tripId = t
          /\ ~owned => resp' = Response(NotFound, Null) /\ events' = events
          /\ UNCHANGED <<trips, points>>
C17_EventsKept ==
    /\ Len(events') >= Len(events)
    /\ \A i \in DOMAIN events : events'[i] = events[i]
C17_EventsAppendOnly == [][C17_EventServed /\ C17_EventsKept]_vars

C17_Witness ==
    /\ Served1.op = "logTripEvent" /\ resp.status = Created
    /\ Closed(Served1.tripId)
    /\ Len(events) = 3 /\ events[1].tripId # events[3].tripId
    /\ points # {}

\* C18: at most one admin has the role SUPER_ADMIN, also when the existence
\* check and the insert of two bootstrap requests interleave.
C18_AtMostOneSuperAdmin == Cardinality(SuperAdmins(admins)) <= 1

\* C19: a StartTrip that does not reply Created leaves every trip, point and
\* event as it was: the owner's open trip is still open.
C19_FailedStartChangesNothing ==
    [][(ServesRequest /\ Served1Next.op = "startTrip" /\ resp'.status # Created)
       => UNCHANGED <<trips, points, events>>]_vars

\* C20: the field write of an UpdateTrip is applied only while the trip's
\* endedAt is still null, also when a StopTrip or an auto-closing StartTrip
\* runs between its read and its write.
C20_UpdateOnlyWhileOpen ==
    [][\A p \in Procs :
          (pc[p] = "updateTripDetails_update" /\ pc'[p] = "idle")
          => trips[loc[p].trip].endedAt = Null]_vars

\* C21: every insert of an IngestOne or IngestBatch happens while the trip's
\* endedAt is still null, also when a StopTrip or an auto-closing StartTrip
\* runs between the read of the trip and the insert.
C21_InsertOnlyWhileOpen ==
    [][\A p \in Procs :
          (/\ pc[p] \in {"ingestLocation_create", "batchIngest_createMany"}
           /\ pc'[p] = "idle"
           /\ points' # points)
          => trips[loc[p].trip].endedAt = Null]_vars

\* C22: a (trip, clientId) pair that is stored stays stored in every later
\* state, the states between the steps of an IngestBatch included.
C22_KeyedPointsStay ==
    [][\A t \in DOMAIN trips : StoredKeys(points, t) \subseteq StoredKeys(points', t)]_vars

\* C23: an IngestBatch with no point or with more than 1000 points is
\* answered with a validation error and stores nothing, whatever the trip;
\* no IngestBatch adds more than 1000 points.
C23_BatchLimits ==
    [][(ServesRequest /\ Served1Next.op = "batchIngestLocations")
       => /\ (Len(Served1Next.pts) = 0 \/ Len(Served1Next.pts) > 1000)
                => /\ resp' = Response(ValidationError, "Validation error")
                   /\ UNCHANGED <<trips, points, events>>
          /\ Cardinality(points' \ points) <= 1000]_vars

C23_Witness ==
    /\ Served1.op = "batchIngestLocations" /\ Len(Served1.pts) = 1001
    /\ resp.status = ValidationError
    /\ Cardinality(points) = 1001

\* the segment lengths of the arrangement s, each under the tag of its later
\* point, against the figures of a reply
SegmentsOf(s) ==
    [i \in 2..Len(s) |-> haversine(s[i - 1].lat, s[i - 1].lng, s[i].lat, s[i].lng)]
LaterTag(s) ==
    [i \in 2..Len(s) |-> IF s[i].mode = NullStr THEN "unknown" ELSE s[i].mode]
ReportsSegments(body, s) ==
    LET seg == SegmentsOf(s)
        tag == LaterTag(s)
    IN /\ body.distanceMeters = Round(SumValues(seg, DOMAIN seg))
       /\ DOMAIN body.distanceByMode = {tag[i] : i \in DOMAIN tag}
       /\ \A m \in DOMAIN body.distanceByMode :
              body.distanceByMode[m]
                  = Round(SumValues(seg, {i \in DOMAIN seg : tag[i] = m}))
       /\ Len(s) < 2 => /\ body.distanceMeters = 0
                         /\ DOMAIN body.distanceByMode = {}

\* C24: the distance of a GetTripDetail reply is the sum of the lengths of the
\* consecutive segments of the trip's points in timestamp order, and each
\* bucket of the breakdown is the sum of the segments whose later point
\* carries that tag, "unknown" for a point without tag (both reported in
\* whole metres); the first point's tag names no bucket, and with fewer than
\* two points the distance is 0 and the breakdown empty.
C24_SegmentsByLaterTag ==
    [][DetailServed =>
          \E s \in findMany(points, Served1Next.tripId) :
              ReportsSegments(resp'.body, s)]_vars

C24_Witness ==
    /\ Served1.op = "getTripDetail" /\ resp.status = Ok
    /\ Cardinality(TripPoints(points, Served1.tripId)) = 3
    /\ \E q \in points :
          /\ q.mode = "car"
          /\ \A o \in points \ {q} : q.timestamp < o.timestamp /\ o.mode # "car"
    /\ DOMAIN resp.body.distanceByMode = {"unknown", "walk"}
    /\ resp.body.distanceByMode["unknown"] > 0
    /\ resp.body.distanceByMode["walk"] > 0

\* C25: a GetTripDetail reply carries durationSeconds = endedAt - startedAt
\* for a closed trip, a stop time before the start included, and null exactly
\* for an open trip; averageSpeedMps is the distance over the duration when
\* the duration is positive and null otherwise.
C25_DurationAndSpeed ==
    [][DetailServed =>
          LET t == trips[Served1Next.tripId]
              b == resp'.body
          IN /\ (t.endedAt = Null) <=> (b.durationSeconds = Null)
             /\ t.endedAt # Null => b.durationSeconds = t.endedAt - t.startedAt
             /\ IF t.endedAt # Null /\ t.endedAt - t.startedAt > 0
                THEN \E s \in findMany(points, Served1Next.tripId) :
                        b.averageSpeedMps
                            = <<SumValues(SegmentsOf(s), DOMAIN SegmentsOf(s)),
                                t.endedAt - t.startedAt>>
                ELSE b.averageSpeedMps = Null]_vars

\* the statements that write: p runs one of them in this step
WriteLabels ==
    {"startTrip_create", "stopTrip_update", "updateTripDetails_update",
     "ingestLocation_create", "batchIngest_delete", "batchIngest_createMany",
     "logTripEvent_create"}
ReadLabels ==
    {"getTripDetail_points", "getTripDetail_pointsWithMode",
     "listTrips_findMany", "listTrips_count"}
RunsWrite(p) ==
    \/ pc[p] \in WriteLabels /\ pc'[p] # pc[p]
    \/ pc[p] = "idle" /\ pc'[p] = "startTrip_create"
RunsRead(p) ==
    \/ pc[p] \in ReadLabels /\ pc'[p] # pc[p]
    \/ pc[p] = "idle" /\ pc'[p] \in ReadLabels

\* C26: no statement of GetTripDetail, ListTrips, GetStreak or
\* GetWeeklyLeaderboard changes a trip (its cached distance and duration
\* included), a point or an event, whatever runs between its statements: a
\* step of a read leaves them as they are, and every step that changes one of
\* them is a statement of a lifecycle, ingestion or event handler.
C26_ReadsChangeNothing ==
    [][/\ (\E p \in Procs : RunsRead(p)) => UNCHANGED <<trips, points, events>>
       /\ <<trips, points, events>>' # <<trips, points, events>>
             => \E p \in Procs : RunsWrite(p)]_vars

C26_Witness ==
    \E p, q \in Procs :
        /\ pc[p] = "getTripDetail_pointsWithMode"
        /\ pc[q] = "ingestLocation_create"
        /\ points # {} /\ events # <<>>

\* C27: an IngestOne whose clientId is already stored for its open trip
\* leaves the trip's points as they are, one point with that key, and is
\* answered as an accepted redelivery, not as a failure.
C27_IngestOneDeduplicates ==
    [][(/\ ServesRequest
        /\ Served1Next.op = "ingestLocation"
        /\ Served1Next.pts[1].clientId \in StoredKeys(points, Served1Next.tripId)
        /\ Owner(Served1Next.tripId) = Served1Next.user
        /\ ~Closed(Served1Next.tripId))
       => /\ PointSet(points', Served1Next.tripId) = PointSet(points, Served1Next.tripId)
          /\ Cardinality({q \in TripPoints(points', Served1Next.tripId) :
                              q.clientId = Served1Next.pts[1].clientId}) = 1
          /\ resp'.status \in {Ok, Created}]_vars

ListServed ==
    /\ Served1Next.op = "listTrips"
    /\ resp'.status = Ok

\* C28: the distance ListTrips shows for a trip, and the distance the weekly
\* leaderboard shows for an owner whose only trip of the week it is, equal
\* the distanceMeters GetTripDetail reports for that trip.
C28_ViewsAgreeOnDistance ==
    [][/\ ListServed =>
             \A i \in DOMAIN resp'.body.items :
                 resp'.body.items[i].distanceMeters
                     = DetailDistance(resp'.body.items[i].id)
       /\ BoardServed =>
             \A i \in DOMAIN resp'.body :
                 LET I == InWindow(trips, resp'.body[i].user_id, clock, WeekDays)
                 IN Cardinality(I) = 1
                       => resp'.body[i].distance = SumDetailDistance(I)]_vars

\* the reply of a GetTripDetail whose last statement runs in this step
DetailReplied(p) ==
    /\ pc[p] = "getTripDetail_pointsWithMode"
    /\ pc'[p] = "idle"
    /\ resp'.status = Ok

\* the positions of a reply's `points` list, as an arrangement of points
Listed(body) ==
    [i \in DOMAIN body.points |->
        [lat |-> body.points[i].lat, lng |-> body.points[i].lng]]

\* C29: the distance of every GetTripDetail reply is the sum of the segments
\* of the `points` list of the same reply, and its breakdown adds up to no
\* more than that sum, also when a point is stored between the two reads of
\* the handler.
C29_DetailMatchesItsPoints ==
    [][\A p \in Procs :
          DetailReplied(p)
          => LET seg == SegmentsOf(Listed(resp'.body))
                 total == SumValues(seg, DOMAIN seg)
             IN /\ resp'.body.distanceMeters = Round(total)
                /\ \A m \in DOMAIN resp'.body.distanceByMode :
                       resp'.body.distanceByMode[m] <= Round(total)
                /\ Len(resp'.body.points) < 2
                      => DOMAIN resp'.body.distanceByMode = {}]_vars

\* C30: every GetStreak reply has
\* 0 <= currentStreakDays <= activeDaysLast60 <= 60, also for trips started
\* in the future or a few hours less than 60 days ago.
C30_StreakBounds ==
    [][StreakServed =>
          /\ 0 <= resp'.body.currentStreakDays
          /\ resp'.body.currentStreakDays <= resp'.body.activeDaysLast60
          /\ resp'.body.activeDaysLast60 <= 60]_vars

=============================================================================
